---- MODULE Spec2Model ----
(***************************************************************************)
(* Model of the Site Launcher background service worker                    *)
(* (src/background.js): the per-tab navigation tracker, the wildcard      *)
(* pattern matcher, the rule evaluator run by chrome.tabs.onUpdated, the   *)
(* confirmation prompt, and the launcher click of src/newtab.js that sets  *)
(* the session marker.                                                     *)
(*                                                                         *)
(* Strings that the code inspects character by character (hostnames,       *)
(* pathnames, patterns) are sequences of one-character strings.            *)
(***************************************************************************)
EXTENDS Integers, Sequences, FiniteSets, TLC

(***************************************************************************)
(* String helpers (String.prototype.startsWith / includes / indexOf).      *)
(***************************************************************************)
StartsWith(s, p) == Len(s) >= Len(p) /\ SubSeq(s, 1, Len(p)) = p

Includes(s, c) == \E k \in 1..Len(s) : s[k] = c

Drop(s, n) == SubSeq(s, n + 1, Len(s))

\* index of the first character of s that belongs to the set cs, 0 if none
FirstOf(s, cs) ==
    IF \E k \in 1..Len(s) : s[k] \in cs
    THEN CHOOSE k \in 1..Len(s) : s[k] \in cs /\ \A m \in 1..(k - 1) : s[m] \notin cs
    ELSE 0

\* number of leading "/" characters of s
RECURSIVE LeadingSlashes(_)
LeadingSlashes(s) ==
    IF Len(s) > 0 /\ s[1] = "/" THEN 1 + LeadingSlashes(Tail(s)) ELSE 0

UpperCase == <<"A", "B", "C", "D", "E", "F", "G", "H", "I", "J", "K", "L", "M",
               "N", "O", "P", "Q", "R", "S", "T", "U", "V", "W", "X", "Y", "Z">>
LowerCase == <<"a", "b", "c", "d", "e", "f", "g", "h", "i", "j", "k", "l", "m",
               "n", "o", "p", "q", "r", "s", "t", "u", "v", "w", "x", "y", "z">>

ToLowerChar(c) ==
    IF \E k \in 1..26 : UpperCase[k] = c
    THEN LowerCase[CHOOSE k \in 1..26 : UpperCase[k] = c]
    ELSE c

ToLower(s) == [k \in 1..Len(s) |-> ToLowerChar(s[k])]

Digits == {"0", "1", "2", "3", "4", "5", "6", "7", "8", "9"}

(***************************************************************************)
(* URLs.  A tab URL handed over by the browser is the serialisation of a   *)
(* parsed URL, so it is kept as the record of its components; two tab URLs *)
(* are the same string exactly when the records are equal.  hostname,      *)
(* pathname and search are character sequences, the rest is opaque.        *)
(***************************************************************************)
MkUrl(scheme, hostname, port, pathname, search, hash) ==
    [scheme |-> scheme, hostname |-> hostname, port |-> port,
     pathname |-> pathname, search |-> search, hash |-> hash]

\* getHostname(url): new URL(url).hostname
getHostname(url) == url.hostname

getUrlPathWithSearch(url) == url.hostname \o url.pathname \o url.search

\* getUrlPath(url): urlObj.hostname + urlObj.pathname
getUrlPath(url) == url.hostname \o url.pathname

\* new URL(x).origin: scheme, host and port for http(s), opaque otherwise
Origin(url) ==
    IF url.scheme \in {"http", "https"}
    THEN <<url.scheme, url.hostname, url.port>>
    ELSE <<"null">>

(***************************************************************************)
(* matchesPattern(url, pattern), src/background.js 287-339.                *)
(***************************************************************************)
HttpsPrefix == <<"h", "t", "t", "p", "s", ":", "/", "/">>
HttpPrefix == <<"h", "t", "t", "p", ":", "/", "/">>
Http == <<"h", "t", "t", "p">>

NoParse == [ok |-> FALSE, hostname |-> <<>>, pathname |-> <<>>]

\* The URL parser on what follows "http(s)://": further slashes are skipped,
\* the authority ends at the first "/", "?" or "#", a port follows ":" and
\* must be numeric, the host is lower-cased and must not be empty, the path
\* ends at "?" or "#" and is "/" when empty.
ParseAfterScheme(rest) ==
    LET r == Drop(rest, LeadingSlashes(rest))
        e == FirstOf(r, {"/", "?", "#"})
        authority == IF e = 0 THEN r ELSE SubSeq(r, 1, e - 1)
        tail == IF e = 0 THEN <<>> ELSE Drop(r, e - 1)
        c == FirstOf(authority, {":"})
        host == IF c = 0 THEN authority ELSE SubSeq(authority, 1, c - 1)
        port == IF c = 0 THEN <<>> ELSE Drop(authority, c)
        q == FirstOf(tail, {"?", "#"})
        path == IF q = 0 THEN tail ELSE SubSeq(tail, 1, q - 1)
    IN  IF host = <<>> \/ \E k \in 1..Len(port) : port[k] \notin Digits
        THEN NoParse
        ELSE [ok |-> TRUE, hostname |-> ToLower(host),
              pathname |-> IF path = <<>> THEN <<"/">> ELSE path]

\* new URL(url.startsWith('http') ? url : `https://${url}`), lines 296 and 310.
\* A string that starts with "http" is parsed as it stands: without
\* "http://" or "https://" in front it has no scheme and the constructor throws.
UrlCtor(url) ==
    IF StartsWith(url, Http)
    THEN IF StartsWith(url, HttpsPrefix) THEN ParseAfterScheme(Drop(url, 8))
         ELSE IF StartsWith(url, HttpPrefix) THEN ParseAfterScheme(Drop(url, 7))
         ELSE NoParse
    ELSE ParseAfterScheme(url)

\* /^(?:https?:\/\/)?([^\/]+)(\/.*)?$/ and /^(?:https?:\/\/)?([^\/]+)/ :
\* the optional scheme prefix is taken when a host follows it, given back
\* otherwise; group 1 runs to the first "/", group 2 is the rest.
ManualSplit(url) ==
    LET stripped == IF StartsWith(url, HttpsPrefix) THEN Drop(url, 8)
                    ELSE IF StartsWith(url, HttpPrefix) THEN Drop(url, 7)
                    ELSE url
        s == IF Len(stripped) > 0 /\ stripped[1] # "/" THEN stripped ELSE url
        e == FirstOf(s, {"/"})
    IN  IF Len(s) = 0 \/ e = 1
        THEN [ok |-> FALSE, g1 |-> <<>>, g2 |-> <<>>]
        ELSE [ok |-> TRUE,
              g1 |-> IF e = 0 THEN s ELSE SubSeq(s, 1, e - 1),
              g2 |-> IF e = 0 THEN <<>> ELSE Drop(s, e - 1)]

\* lines 292-317: the string the regular expression is tested against
UrlToMatch(url, pattern) ==
    LET hasPath == Includes(pattern, "/")
        u == UrlCtor(url)
        m == ManualSplit(url)
    IN  IF hasPath
        THEN IF u.ok THEN u.hostname \o u.pathname
             ELSE IF m.ok THEN m.g1 \o m.g2 ELSE url
        ELSE IF u.ok THEN u.hostname
             ELSE IF m.ok THEN m.g1 ELSE url

Placeholder == <<"_", "_", "_", "W", "I", "L", "D", "C", "A", "R", "D", "_",
                 "P", "L", "A", "C", "E", "H", "O", "L", "D", "E", "R", "_", "_", "_">>

\* the characters escaped by .replace(/[.+?^${}()|[\]\\]/g, '\\$&'), line 328
RegexSpecials == {".", "+", "?", "^", "$", "{", "}", "(", ")", "|", "[", "]", "\\"}

\* pattern.replace(/\*/g, placeholder), line 324
RECURSIVE ReplaceStars(_)
ReplaceStars(p) ==
    IF p = <<>> THEN <<>>
    ELSE (IF Head(p) = "*" THEN Placeholder ELSE <<Head(p)>>) \o ReplaceStars(Tail(p))

\* lines 327-328: a backslash in front of every special character
RECURSIVE EscapeSpecials(_)
EscapeSpecials(p) ==
    IF p = <<>> THEN <<>>
    ELSE (IF Head(p) \in RegexSpecials THEN <<"\\", Head(p)>> ELSE <<Head(p)>>)
         \o EscapeSpecials(Tail(p))

\* The compiled expression as a token list.  Line 331 turns every occurrence
\* of the placeholder (leftmost first, not overlapping) into ".*"; in the
\* resulting source a backslash makes the next character a literal, a bare
\* "." stands for any one character, every other character stands for itself.
Wild == "WILD"
AnyChar == "ANY"

RECURSIVE RegexTokens(_)
RegexTokens(e) ==
    IF e = <<>> THEN <<>>
    ELSE IF StartsWith(e, Placeholder)
         THEN <<Wild>> \o RegexTokens(Drop(e, Len(Placeholder)))
    ELSE IF Head(e) = "\\" /\ Len(e) >= 2
         THEN <<e[2]>> \o RegexTokens(Drop(e, 2))
    ELSE IF Head(e) = "."
         THEN <<AnyChar>> \o RegexTokens(Tail(e))
    ELSE <<Head(e)>> \o RegexTokens(Tail(e))

\* new RegExp(`^${regexPattern}$`).test(s), lines 333-334: tokens from i on
\* against s from j on, anchored at both ends
RECURSIVE RegexTest(_, _, _, _)
RegexTest(toks, i, s, j) ==
    IF i > Len(toks) THEN j > Len(s)
    ELSE IF toks[i] = Wild
         THEN \E k \in j..(Len(s) + 1) : RegexTest(toks, i + 1, s, k)
    ELSE IF toks[i] = AnyChar
         THEN j <= Len(s) /\ RegexTest(toks, i + 1, s, j + 1)
    ELSE j <= Len(s) /\ s[j] = toks[i] /\ RegexTest(toks, i + 1, s, j + 1)

matchesPattern(url, pattern) ==
    RegexTest(RegexTokens(EscapeSpecials(ReplaceStars(pattern))), 1,
              UrlToMatch(url, pattern), 1)


(***************************************************************************)
(* The URLs of the tab model.                                              *)
(***************************************************************************)
HostA == <<"a", ".", "c", "o", "m">>
Root == <<"/">>

UrlA == MkUrl("https", HostA, "", Root, <<>>, "")
UrlAx == MkUrl("https", HostA, "", <<"/", "x">>, <<>>, "")
\* chrome://newtab/, the page the launcher replaces
UrlNewTab == MkUrl("chrome", <<"n", "e", "w", "t", "a", "b">>, "", Root, <<>>, "")
\* about:blank has an empty hostname and the opaque path "blank"
UrlBlank == MkUrl("about", <<>>, "", <<"b", "l", "a", "n", "k">>, <<>>, "")

Urls == {UrlA, UrlAx, UrlNewTab, UrlBlank}

\* Map.get() of a missing key
Undefined == MkUrl("undefined", <<>>, "", <<>>, <<>>, "")

IsChromeUrl(url) == url.scheme \in {"chrome", "chrome-extension"}

\* tab.url.startsWith('chrome://') || 'chrome-extension://' || 'about:'
IsInternalUrl(url) == url.scheme \in {"chrome", "chrome-extension", "about"}

(***************************************************************************)
(* Stored configuration: chrome.storage.local 'sites' and 'globalScripts'. *)
(***************************************************************************)
Script(runAlways, confirmPopup) ==
    [runAlways |-> runAlways, confirmPopup |-> confirmPopup]

Site(id, url, scripts) == [id |-> id, url |-> url, scripts |-> scripts]

\* scripts is the number of {timing, code} blocks of the rule
GlobalScript(id, whenToRun, domainPattern, onRefresh, confirmPopup, scripts) ==
    [id |-> id, whenToRun |-> whenToRun, domainPattern |-> domainPattern,
     onRefresh |-> onRefresh, confirmPopup |-> confirmPopup, scripts |-> scripts]

PatA == HostA
PatAx == <<"a", ".", "c", "o", "m", "/", "x">>
PatAnyCom == <<"*", ".", "c", "o", "m">>

\* the stored configurations the model starts from: <<sites, globalScripts>>
Configs ==
    { <<<<Site("s1", UrlA, <<Script(FALSE, FALSE)>>)>>,
        <<GlobalScript("g1", "navigating_in", PatA, FALSE, FALSE, 2)>>>>,
      <<<<Site("s1", UrlA, <<>>)>>,
        <<GlobalScript("g1", "on_site_open", PatA, FALSE, FALSE, 1)>>>>,
      <<<<Site("s1", UrlA, <<Script(TRUE, TRUE), Script(FALSE, FALSE)>>)>>,
        <<GlobalScript("g1", "navigating_out", PatAnyCom, FALSE, TRUE, 1),
          GlobalScript("g2", "navigating_in", PatAx, TRUE, TRUE, 2)>>>>,
      <<<<Site("s1", UrlA, <<>>), Site("s2", UrlAx, <<Script(FALSE, FALSE)>>)>>,
        <<GlobalScript("g1", "navigating_out", PatA, TRUE, FALSE, 1),
          GlobalScript("g2", "on_site_open", PatAnyCom, TRUE, FALSE, 1)>>>>,
      <<<<Site("s1", UrlA, <<Script(FALSE, FALSE)>>)>>,
        <<GlobalScript("g1", "on_site_open", PatA, FALSE, FALSE, 1)>>>> }

(***************************************************************************)
(* Bounds.                                                                 *)
(***************************************************************************)
NumTabs == 2
MaxEvents == 4

Tabs == 1..NumTabs

(***************************************************************************)
(* State.                                                                  *)
(***************************************************************************)
VARIABLES
    sites,                      \* chrome.storage.local 'sites'
    globalScripts,              \* chrome.storage.local 'globalScripts'
    session,                    \* ids s with launcher_opened_<s> === true
    tabPreviousUrls,            \* Map tabId -> previous URL
    tabNavigationTypes,         \* Map tabId -> 'refresh' | 'navigation' | 'direct'
    tabNavigationPreviousUrls,  \* Map tabId -> previous URL of the navigation
    tabLife,                    \* browser: 'new' (no such tab yet), 'open', 'removed'
    tabUrl,                     \* browser: tab.url
    tabStatus,                  \* browser: tab.status
    loadIsReload,               \* history: the tab's current load kept its URL
    loadType,                   \* history: type set by the URL change of the tab's
                                \* current load, "none" when it had no URL change
    handlers,                   \* onUpdated invocations suspended at an await
    injected,                   \* chrome.scripting.executeScript requests, in order
    judged,                     \* history: trigger decisions, prompt answers, launcher clicks
    events,                     \* number of browser events delivered so far
    scenario,                   \* history: progress of the launcher scenario
    matcher,                    \* one evaluation of the pattern matcher
    popup,                      \* one showConfirmPopup call and its page
    launcher                    \* the launcher page (src/newtab.js) editing the sites

maps == <<tabPreviousUrls, tabNavigationTypes, tabNavigationPreviousUrls>>
\* what no tab event and no handler step touches
fixed == <<sites, globalScripts, matcher, popup, launcher>>
browser == <<tabLife, tabUrl, tabStatus, loadIsReload, loadType>>
vars == <<sites, globalScripts, session, tabPreviousUrls, tabNavigationTypes,
          tabNavigationPreviousUrls, tabLife, tabUrl, tabStatus, loadIsReload, loadType,
          handlers, injected, judged, events, scenario, matcher, popup, launcher>>

Idle == [phase |-> 0, tab |-> 0, site |-> 0, base |-> 0]

\* no matcher evaluation, no prompt
NoMatcher ==
    [url |-> Undefined, other |-> Undefined, pattern |-> <<>>,
     result |-> FALSE, otherResult |-> FALSE, done |-> FALSE]

NoPopup ==
    [promise |-> "none", overlay |-> FALSE, input |-> "absent", inject |-> "none",
     poll |-> "off", final |-> "off", cleanup |-> FALSE, tabExists |-> TRUE,
     timedOut |-> FALSE, late |-> FALSE, closedPending |-> FALSE,
     resumed |-> FALSE, requests |-> 0]

\* the launcher page has no dialog open.  clock is the last value Date.now()
\* gave to a site id, ops counts the operations started; read is the list the
\* delete handler got from getSites, target the site it was clicked for, and
\* removed (history) the site whose deletion was confirmed last
NoLauncher ==
    [dialog |-> "none", target |-> 0, read |-> <<>>, removed |-> 0,
     clock |-> 0, ops |-> 0]

\* the service worker has just started: the three maps are empty, tab 1 shows
\* the launcher page
InitTabs ==
    /\ session = {}
    /\ tabPreviousUrls = [t \in Tabs |-> Undefined]
    /\ tabNavigationTypes = [t \in Tabs |-> "undefined"]
    /\ tabNavigationPreviousUrls = [t \in Tabs |-> Undefined]
    /\ tabLife = [t \in Tabs |-> IF t = 1 THEN "open" ELSE "new"]
    /\ tabUrl = [t \in Tabs |-> UrlNewTab]
    /\ tabStatus = [t \in Tabs |-> "complete"]
    /\ loadIsReload = [t \in Tabs |-> FALSE]
    /\ loadType = [t \in Tabs |-> "none"]
    /\ handlers = {}
    /\ injected = <<>>
    /\ judged = {}
    /\ events = 0
    /\ scenario = Idle
    /\ launcher = NoLauncher

Init ==
    /\ \E c \in Configs : sites = c[1] /\ globalScripts = c[2]
    /\ InitTabs
    /\ matcher = NoMatcher
    /\ popup = NoPopup

(***************************************************************************)
(* The synchronous stretches of the onUpdated listener.  A handler record  *)
(* is an invocation suspended at an await: ev numbers the event that       *)
(* started it, url is tab.url of that event, prev the previousUrl local of *)
(* lines 371-372, site the index of matchingSite (0: none), opened the     *)
(* openedViaLauncher local, i and j the loop positions, reload whether the *)
(* event belongs to a load that kept the tab's URL, nav the navigationType *)
(* local of line 534 across the await of line 548, start what line 458     *)
(* found in tabNavigationTypes, load the tab's loadType at the event.      *)
(***************************************************************************)
Handler(ev, tab, url, pc, prev, reload) ==
    [ev |-> ev, tab |-> tab, url |-> url, pc |-> pc, prev |-> prev,
     site |-> 0, opened |-> FALSE, i |-> 0, j |-> 0, reload |-> reload,
     nav |-> "none", start |-> "none", load |-> "none"]

\* chrome.scripting.executeScript rejects for a tab that is gone and for a
\* chrome:// or chrome-extension:// page
Injectable(t) ==
    tabLife[t] = "open" /\ tabUrl[t].scheme \notin {"chrome", "chrome-extension"}

\* one executeScriptWithTiming call (lines 201-282): the request is issued;
\* when it is rejected (failed) the .catch of the call logs it
Request(h, kind, owner, idx) ==
    [tab |-> h.tab, kind |-> kind, owner |-> owner, idx |-> idx,
     ev |-> h.ev, reload |-> h.reload, opened |-> h.opened,
     failed |-> ~Injectable(h.tab)]

\* history of one decision of the evaluation of event h.ev: at is the loop
\* ("out", "site", "global"), idx the position of the rule or script in its
\* stored list, url the URL the rule is matched against, nav the
\* navigationType local (line 534), marker whether a launcher marker was
\* read (line 489 or 549), verdict "nomatch", "skip" or "run" for the trigger
\* check and "confirmed" or "cancelled" for the answer to the rule's prompt
Judged(h, at, idx, nav, marker, verdict) ==
    [kind |-> "judged", ev |-> h.ev, tab |-> h.tab, at |-> at, idx |-> idx,
     url |-> IF at = "out" THEN h.prev ELSE h.url,
     nav |-> nav, marker |-> marker, verdict |-> verdict,
     start |-> h.start, load |-> h.load]

\* history of a click on site k of the launcher grid (src/newtab.js 341-344),
\* which sets the marker of that site; ev is the URL-change event it causes
Clicked(ev, t, k) ==
    [kind |-> "judged", ev |-> ev, tab |-> t, at |-> "launcher", idx |-> k,
     url |-> sites[k].url, nav |-> "none", marker |-> TRUE, verdict |-> "clicked",
     start |-> "none", load |-> "none"]

IsRequest(e) == e.kind # "judged"

RunGlobalUntilFailure(h, g) ==
    [k \in 1..(IF Injectable(h.tab) THEN g.scripts ELSE 1) |->
        Request(h, "global", g.id, k)]

\* lines 425-427 and 579-581: every code block of the rule, in stored order
RunGlobal(h, g) == [k \in 1..g.scripts |-> Request(h, "global", g.id, k)]

\* where a stretch ends: acc holds its requests and decisions in order, nav
\* the navigationType local kept across the await of line 548
Suspended(acc, pc, pos) == [inj |-> acc, pc |-> pc, pos |-> pos, nav |-> "none"]

ClassifyNoRefresh(previousUrl, currentUrl) ==
    IF previousUrl # Undefined /\ getHostname(previousUrl) # <<>>
       /\ getHostname(previousUrl) # getHostname(currentUrl)
    THEN "navigation"
    ELSE "direct"

\* lines 380-388
Classify(previousUrl, currentUrl) ==
    LET previousHostname ==
            IF previousUrl # Undefined THEN getHostname(previousUrl) ELSE <<>>
    IN  IF previousUrl = currentUrl THEN "refresh"
        ELSE IF previousHostname # <<>> /\ previousHostname # getHostname(currentUrl)
             THEN "navigation"
        ELSE "direct"

\* line 391: previousHostname && previousHostname !== currentHostname
NavigatingAway(previousUrl, currentUrl) ==
    /\ previousUrl # Undefined
    /\ getHostname(previousUrl) # <<>>
    /\ getHostname(previousUrl) # getHostname(currentUrl)

\* lines 403-405 and 525-527: the target handed to matchesPattern
PatternMatches(url, pattern) ==
    matchesPattern(IF Includes(pattern, "/") THEN getUrlPath(url) ELSE getHostname(url),
                   pattern)

\* lines 397-429, from rule i on, up to the next await or the end of the loop
RECURSIVE NavigatingOutLoop(_, _, _)
NavigatingOutLoop(h, i, acc) ==
    IF i > Len(globalScripts) THEN Suspended(acc, "done", i)
    ELSE LET g == globalScripts[i]
             run == acc \o <<Judged(h, "out", i, "none", FALSE, "run")>>
         IN
         IF g.whenToRun # "navigating_out" THEN NavigatingOutLoop(h, i + 1, acc)
         ELSE IF ~PatternMatches(h.prev, g.domainPattern)
              THEN NavigatingOutLoop(h, i + 1,
                       acc \o <<Judged(h, "out", i, "none", FALSE, "nomatch")>>)
         ELSE IF g.onRefresh
              THEN NavigatingOutLoop(h, i + 1,
                       acc \o <<Judged(h, "out", i, "none", FALSE, "skip")>>)
         ELSE IF g.scripts = 0 THEN NavigatingOutLoop(h, i + 1, run)
         ELSE IF g.confirmPopup THEN Suspended(run, "out_confirm", i)
         ELSE NavigatingOutLoop(h, i + 1, run \o RunGlobal(h, g))

ShouldRunAlways(script, openedViaLauncher) == TRUE

\* line 496
ShouldRun(script, openedViaLauncher) ==
    script.runAlways # FALSE \/ openedViaLauncher

\* lines 492-518, from script j on; after the loop the marker is removed
\* (an await) when it was read as set
RECURSIVE SiteLoop(_, _, _)
SiteLoop(h, j, acc) ==
    LET scripts == sites[h.site].scripts
        run == acc \o <<Judged(h, "site", j, "none", h.opened, "run")>>
    IN
    IF j > Len(scripts)
    THEN Suspended(acc, IF h.opened THEN "session_remove" ELSE "globals", j)
    ELSE IF ~ShouldRun(scripts[j], h.opened)
         THEN SiteLoop(h, j + 1,
                  acc \o <<Judged(h, "site", j, "none", h.opened, "skip")>>)
    ELSE IF scripts[j].confirmPopup THEN Suspended(run, "site_confirm", j)
    ELSE SiteLoop(h, j + 1, run \o <<Request(h, "site", sites[h.site].id, j)>>)

\* lines 534-535, read anew for every rule
NavigationType(tab) ==
    IF tabNavigationTypes[tab] = "undefined" THEN "direct" ELSE tabNavigationTypes[tab]

RunOnRefreshNavigatingIn(g, isRefresh) ==
    g.onRefresh /\ isRefresh /\ g.whenToRun = "navigating_in"

\* line 537: globalScript.onRefresh && isRefresh
RunOnRefresh(g, isRefresh) == g.onRefresh /\ isRefresh

\* lines 568-582, once shouldRun is true
RECURSIVE GlobalLoop(_, _, _)
GlobalRun(h, i, acc) ==
    LET g == globalScripts[i] IN
    IF g.scripts = 0 THEN GlobalLoop(h, i + 1, acc)
    ELSE IF g.confirmPopup THEN Suspended(acc, "global_confirm", i)
    ELSE GlobalLoop(h, i + 1, acc \o RunGlobal(h, g))

\* lines 522-566, from rule i on
GlobalLoop(h, i, acc) ==
    IF i > Len(globalScripts) THEN Suspended(acc, "done", i)
    ELSE LET g == globalScripts[i]
             navigationType == NavigationType(h.tab)
             isRefresh == navigationType = "refresh"
             decided(v) == acc \o <<Judged(h, "global", i, navigationType, FALSE, v)>>
         IN
         IF ~PatternMatches(h.url, g.domainPattern)
         THEN GlobalLoop(h, i + 1, decided("nomatch"))
         ELSE IF RunOnRefresh(g, isRefresh) THEN GlobalRun(h, i, decided("run"))
         ELSE IF ~g.onRefresh /\ isRefresh THEN GlobalLoop(h, i + 1, decided("skip"))
         ELSE IF g.whenToRun = "on_site_open"
              THEN [Suspended(acc, "session_all", i) EXCEPT !.nav = navigationType]
         ELSE IF g.whenToRun = "navigating_in" THEN GlobalRun(h, i, decided("run"))
         ELSE GlobalLoop(h, i + 1, decided("skip"))

\* lines 475-484: sites.find by origin, 0 when there is none
MatchingSite(url) ==
    IF \E k \in 1..Len(sites) : Origin(sites[k].url) = Origin(url)
    THEN CHOOSE k \in 1..Len(sites) :
            /\ Origin(sites[k].url) = Origin(url)
            /\ \A m \in 1..(k - 1) : Origin(sites[m].url) # Origin(url)
    ELSE 0


\* after the site loop: straight on to the global rules unless an await comes first
AfterSite(h, r) == IF r.pc = "globals" THEN GlobalLoop(h, 1, r.inj) ELSE r

\* the handler h, its locals now g, goes on as far as r says: suspended
\* again, or finished
Proceed(h, g, r) ==
    /\ injected' = injected \o SelectSeq(r.inj, IsRequest)
    /\ judged' = judged \cup {r.inj[k] : k \in {n \in 1..Len(r.inj) : ~IsRequest(r.inj[n])}}
    /\ handlers' = (handlers \ {h}) \cup
                   (IF r.pc = "done" THEN {}
                    ELSE {[g EXCEPT !.pc = r.pc, !.nav = r.nav,
                                    !.i = IF r.pc = "site_confirm" THEN g.i ELSE r.pos,
                                    !.j = IF r.pc = "site_confirm" THEN r.pos ELSE g.j]})

\* line 436, reached when the navigating_out loop (or its catch) is left
ProceedOut(h, r) ==
    /\ Proceed(h, h, r)
    /\ tabPreviousUrls' = IF r.pc = "done"
                          THEN [tabPreviousUrls EXCEPT ![h.tab] = h.url]
                          ELSE tabPreviousUrls
    /\ UNCHANGED <<tabNavigationTypes, tabNavigationPreviousUrls>>

(***************************************************************************)
(* History of the launcher scenario: a site is opened from the grid while  *)
(* no handler is in flight (phase 1), its load completes (2), the same tab *)
(* is reloaded once everything has finished (3) and that load completes    *)
(* (4).  Any other browser event, and a failed storage read, ends it.      *)
(***************************************************************************)
OnClick(t, k) ==
    IF handlers = {}
    THEN [phase |-> 1, tab |-> t, site |-> k, base |-> Len(injected)]
    ELSE Idle

OnReload(t) ==
    IF scenario.phase = 2 /\ scenario.tab = t /\ handlers = {}
    THEN [scenario EXCEPT !.phase = 3]
    ELSE Idle

OnComplete(t) ==
    IF scenario.phase \in {1, 3} /\ scenario.tab = t
    THEN [scenario EXCEPT !.phase = scenario.phase + 1]
    ELSE Idle

(***************************************************************************)
(* chrome.tabs.onUpdated with changeInfo.url: lines 368-437 up to the      *)
(* first await.                                                            *)
(***************************************************************************)
UrlChanged(t, u) ==
    LET previousUrl == tabPreviousUrls[t] IN
    /\ tabNavigationPreviousUrls' =
           IF previousUrl # Undefined
           THEN [tabNavigationPreviousUrls EXCEPT ![t] = previousUrl]
           ELSE tabNavigationPreviousUrls
    /\ tabNavigationTypes' = [tabNavigationTypes EXCEPT ![t] = Classify(previousUrl, u)]
    /\ IF NavigatingAway(previousUrl, u)
       THEN /\ handlers' = handlers \cup
                   {Handler(events + 1, t, u, "out_get", previousUrl, u = tabUrl[t])}
            /\ UNCHANGED tabPreviousUrls
       ELSE /\ tabPreviousUrls' = [tabPreviousUrls EXCEPT ![t] = u]
            /\ UNCHANGED handlers
    /\ tabUrl' = [tabUrl EXCEPT ![t] = u]
    /\ tabStatus' = [tabStatus EXCEPT ![t] = "loading"]
    /\ loadIsReload' = [loadIsReload EXCEPT ![t] = (u = tabUrl[t])]
    /\ loadType' = [loadType EXCEPT ![t] = Classify(previousUrl, u)]
    /\ events' = events + 1
    /\ UNCHANGED <<fixed, injected, tabLife>>

\* the tab commits a navigation to u; the browser reports {status: 'loading', url: u}
UrlChange(t, u) ==
    /\ tabLife[t] = "open"
    /\ events < MaxEvents
    /\ UrlChanged(t, u)
    /\ scenario' = IF u = tabUrl[t] THEN OnReload(t) ELSE Idle
    /\ UNCHANGED <<session, judged>>

\* src/newtab.js 341-344: the marker is written, then location.href is assigned
LauncherClick(t, k) ==
    /\ tabLife[t] = "open"
    /\ tabUrl[t] = UrlNewTab
    /\ events < MaxEvents
    /\ session' = session \cup {sites[k].id}
    /\ judged' = judged \cup {Clicked(events + 1, t, k)}
    /\ UrlChanged(t, sites[k].url)
    /\ scenario' = OnClick(t, k)

\* a reload the browser reports with {status: 'loading'} alone: the listener
\* returns at line 440 without touching anything
Reload(t) ==
    /\ tabLife[t] = "open"
    /\ events < MaxEvents
    /\ tabStatus' = [tabStatus EXCEPT ![t] = "loading"]
    /\ loadIsReload' = [loadIsReload EXCEPT ![t] = TRUE]
    /\ loadType' = [loadType EXCEPT ![t] = "none"]
    /\ events' = events + 1
    /\ scenario' = OnReload(t)
    /\ UNCHANGED <<fixed, session, maps, tabLife, tabUrl, handlers, injected, judged>>

\* {status: 'complete'}: lines 440-470 up to the storage read
LoadComplete(t) ==
    /\ tabLife[t] = "open"
    /\ tabStatus[t] = "loading"
    /\ events < MaxEvents
    /\ tabStatus' = [tabStatus EXCEPT ![t] = "complete"]
    /\ events' = events + 1
    /\ scenario' = OnComplete(t)
    /\ IF IsInternalUrl(tabUrl[t])
       THEN UNCHANGED <<maps, handlers>>
       ELSE /\ tabPreviousUrls' = [tabPreviousUrls EXCEPT ![t] = tabUrl[t]]
            /\ tabNavigationPreviousUrls' =
                   [tabNavigationPreviousUrls EXCEPT ![t] = Undefined]
            /\ handlers' = handlers \cup
                   {[Handler(events + 1, t, tabUrl[t], "get", Undefined, loadIsReload[t])
                        EXCEPT !.start = tabNavigationTypes[t], !.load = loadType[t]]}
            /\ UNCHANGED tabNavigationTypes
    /\ UNCHANGED <<fixed, session, tabLife, tabUrl, loadIsReload, loadType, injected, judged>>

\* the user opens a tab: it shows the launcher page; no listener of the
\* service worker runs
TabCreated(t) ==
    /\ tabLife[t] = "new"
    /\ events < MaxEvents
    /\ tabLife' = [tabLife EXCEPT ![t] = "open"]
    /\ events' = events + 1
    /\ scenario' = Idle
    /\ UNCHANGED <<fixed, session, maps, tabUrl, tabStatus, loadIsReload, loadType, handlers,
                   injected, judged>>

TabRemovedClearsAll(t) ==
    /\ tabLife[t] = "open"
    /\ events < MaxEvents
    /\ tabLife' = [tabLife EXCEPT ![t] = "removed"]
    /\ tabPreviousUrls' = [b \in Tabs |-> Undefined]
    /\ tabNavigationTypes' = [b \in Tabs |-> "undefined"]
    /\ tabNavigationPreviousUrls' = [b \in Tabs |-> Undefined]
    /\ events' = events + 1
    /\ scenario' = Idle
    /\ UNCHANGED <<fixed, session, tabUrl, tabStatus, loadIsReload, loadType, handlers,
                   injected, judged>>

\* chrome.tabs.onRemoved, lines 591-595
TabRemoved(t) ==
    /\ tabLife[t] = "open"
    /\ events < MaxEvents
    /\ tabLife' = [tabLife EXCEPT ![t] = "removed"]
    /\ tabPreviousUrls' = [tabPreviousUrls EXCEPT ![t] = Undefined]
    /\ tabNavigationTypes' = [tabNavigationTypes EXCEPT ![t] = "undefined"]
    /\ tabNavigationPreviousUrls' = [tabNavigationPreviousUrls EXCEPT ![t] = Undefined]
    /\ events' = events + 1
    /\ scenario' = Idle
    /\ UNCHANGED <<fixed, session, tabUrl, tabStatus, loadIsReload, loadType, handlers,
                   injected, judged>>

(***************************************************************************)
(* Resumptions of a suspended handler.                                     *)
(***************************************************************************)
quiet == <<fixed, browser, events>>

\* line 393 resolves: the navigating_out loop starts
NavigatingOutRead(h) ==
    /\ h.pc = "out_get"
    /\ ProceedOut(h, NavigatingOutLoop(h, 1, <<>>))
    /\ UNCHANGED <<quiet, session, scenario>>

\* line 393 rejects: caught at line 430, line 436 still runs
NavigatingOutReadFails(h) ==
    /\ h.pc = "out_get"
    /\ ProceedOut(h, Suspended(<<>>, "done", 0))
    /\ scenario' = Idle
    /\ UNCHANGED <<quiet, session>>

\* line 419 resolves with the user's answer
NavigatingOutConfirmed(h, confirmed) ==
    /\ h.pc = "out_confirm"
    /\ ProceedOut(h, NavigatingOutLoop(h, h.i + 1,
                     IF confirmed
                     THEN <<Judged(h, "out", h.i, "none", FALSE, "confirmed")>>
                          \o RunGlobal(h, globalScripts[h.i])
                     ELSE <<Judged(h, "out", h.i, "none", FALSE, "cancelled")>>))
    /\ UNCHANGED <<quiet, session, scenario>>

\* line 470 resolves: the matching site is looked up
StorageRead(h) ==
    /\ h.pc = "get"
    /\ LET k == MatchingSite(h.url) IN
       IF k # 0 /\ Len(sites[k].scripts) > 0
       THEN Proceed(h, [h EXCEPT !.site = k], Suspended(<<>>, "session_get", 0))
       ELSE Proceed(h, h, GlobalLoop(h, 1, <<>>))
    /\ UNCHANGED <<quiet, session, maps, scenario>>

StorageFailureIgnored(h) ==
    /\ h.pc = "get"
    /\ Proceed(h, h, GlobalLoop(h, 1, <<Judged(h, "global", 0, "none", FALSE, "failed")>>))
    /\ scenario' = Idle
    /\ UNCHANGED <<quiet, session, maps>>

\* line 470 rejects: caught at line 585
StorageReadFails(h) ==
    /\ h.pc = "get"
    /\ Proceed(h, h, Suspended(<<Judged(h, "global", 0, "none", FALSE, "failed")>>,
                               "done", 0))
    /\ scenario' = Idle
    /\ UNCHANGED <<quiet, session, maps>>

\* line 488 resolves: openedViaLauncher is known, the site loop starts
SessionRead(h) ==
    /\ h.pc = "session_get"
    /\ LET g == [h EXCEPT !.opened = (sites[h.site].id \in session)] IN
       Proceed(h, g, AfterSite(g, SiteLoop(g, 1, <<>>)))
    /\ UNCHANGED <<quiet, session, maps, scenario>>


SiteAnswerEndsEvaluation(h, confirmed) ==
    /\ h.pc = "site_confirm"
    /\ Proceed(h, h, Suspended(
           IF confirmed
           THEN <<Judged(h, "site", h.j, "none", h.opened, "confirmed"),
                  Request(h, "site", sites[h.site].id, h.j)>>
           ELSE <<Judged(h, "site", h.j, "none", h.opened, "cancelled")>>,
           IF confirmed THEN "globals" ELSE "done", 0))
    /\ UNCHANGED <<quiet, session, maps, scenario>>

\* line 506 resolves with the user's answer
SiteConfirmed(h, confirmed) ==
    /\ h.pc = "site_confirm"
    /\ Proceed(h, h, AfterSite(h, SiteLoop(h, h.j + 1,
                  IF confirmed
                  THEN <<Judged(h, "site", h.j, "none", h.opened, "confirmed"),
                         Request(h, "site", sites[h.site].id, h.j)>>
                  ELSE <<Judged(h, "site", h.j, "none", h.opened, "cancelled")>>)))
    /\ UNCHANGED <<quiet, session, maps, scenario>>

\* line 517: the marker of the matching site is removed
SessionAfterRemove(h) == session \ {sites[h.site].id}

\* line 517 resolves: the global rules follow
SessionRemove(h) ==
    /\ h.pc = "session_remove"
    /\ session' = SessionAfterRemove(h)
    /\ Proceed(h, h, GlobalLoop(h, 1, <<>>))
    /\ UNCHANGED <<quiet, maps, scenario>>

MarkerNotNeeded(keys) == TRUE

\* lines 549-551: some key launcher_opened_* of the session data is true
AnyLauncherMarker(keys) == keys # {}

\* line 548 resolves
SessionReadAll(h) ==
    /\ h.pc = "session_all"
    /\ LET openedViaLauncher == AnyLauncherMarker(session)
           decided(v) == <<Judged(h, "global", h.i, h.nav, session # {}, v)>>
       IN  Proceed(h, h, IF openedViaLauncher THEN GlobalRun(h, h.i, decided("run"))
                         ELSE GlobalLoop(h, h.i + 1, decided("skip")))
    /\ UNCHANGED <<quiet, session, maps, scenario>>

\* line 573 resolves with the user's answer
GlobalConfirmed(h, confirmed) ==
    /\ h.pc = "global_confirm"
    /\ Proceed(h, h, GlobalLoop(h, h.i + 1,
                  IF confirmed
                  THEN <<Judged(h, "global", h.i, "none", FALSE, "confirmed")>>
                       \o RunGlobal(h, globalScripts[h.i])
                  ELSE <<Judged(h, "global", h.i, "none", FALSE, "cancelled")>>))
    /\ UNCHANGED <<quiet, session, maps, scenario>>

Next ==
    \/ \E t \in Tabs, u \in Urls : UrlChange(t, u)
    \/ \E t \in Tabs, k \in 1..Len(sites) : LauncherClick(t, k)
    \/ \E t \in Tabs : Reload(t)
    \/ \E t \in Tabs : LoadComplete(t)
    \/ \E t \in Tabs : TabCreated(t)
    \/ \E t \in Tabs : TabRemoved(t)
    \/ \E h \in handlers : NavigatingOutRead(h)
    \/ \E h \in handlers : NavigatingOutReadFails(h)
    \/ \E h \in handlers, b \in BOOLEAN : NavigatingOutConfirmed(h, b)
    \/ \E h \in handlers : StorageRead(h)
    \/ \E h \in handlers : StorageReadFails(h)
    \/ \E h \in handlers : SessionRead(h)
    \/ \E h \in handlers, b \in BOOLEAN : SiteConfirmed(h, b)
    \/ \E h \in handlers : SessionRemove(h)
    \/ \E h \in handlers : SessionReadAll(h)
    \/ \E h \in handlers, b \in BOOLEAN : GlobalConfirmed(h, b)

Spec == Init /\ [][Next]_vars


(***************************************************************************)
(* The pattern matcher on its own: the inputs are drawn at the start, one  *)
(* step evaluates the match of lines 525-527 for two URLs under the same   *)
(* pattern.                                                                *)
(***************************************************************************)
Example == <<"e", "x", "a", "m", "p", "l", "e", ".", "c", "o", "m">>
SubExample == <<"s", "u", "b", ".">> \o Example
AExample == <<"a", ".">> \o Example
HttpBin == <<"h", "t", "t", "p", "b", "i", "n", ".", "o", "r", "g">>
AuthLogin == <<"/", "a", "u", "t", "h", "/", "l", "o", "g", "i", "n">>
AuthLogout == <<"/", "a", "u", "t", "h", "/", "l", "o", "g", "o", "u", "t">>
Get == <<"/", "g", "e", "t">>

MatchUrls ==
    { MkUrl("https", Example, "", Root, <<>>, ""),
      MkUrl("http", Example, "8080", Root, <<"?", "q", "=", "1">>, "#f"),
      MkUrl("https", Example, "", AuthLogin, <<>>, ""),
      MkUrl("https", SubExample, "", Root, <<>>, ""),
      MkUrl("https", AExample, "", AuthLogin, <<>>, ""),
      MkUrl("https", AExample, "", AuthLogout, <<>>, ""),
      MkUrl("http", AExample, "8080", AuthLogin, <<"?", "n", "=", "1">>, "#top"),
      MkUrl("https", HttpBin, "", Get, <<>>, ""),
      MkUrl("https", HttpBin, "", Get, <<"?", "x", "=", "1">>, ""),
      MkUrl("https", <<"e", "x", "a", "m", "p", "l", "e", "z", "c", "o", "m">>, "", Root, <<>>, "") }

Patterns ==
    { <<"*", ".">> \o Example,
      Example,
      Example \o <<"/">>,
      AExample \o AuthLogin,
      <<"*", ".">> \o Example \o <<"/", "*">>,
      <<"*", "/", "a", "u", "t", "h", "/", "*">>,
      HttpBin \o Get,
      <<"h", "t", "t", "p", "*">>,
      <<"a", "*", ".">> \o Example,
      <<"*">>,
      Placeholder }

InitMatch ==
    /\ sites = <<>>
    /\ globalScripts = <<>>
    /\ InitTabs
    /\ popup = NoPopup
    /\ \E u \in MatchUrls, v \in MatchUrls, p \in Patterns :
           matcher = [NoMatcher EXCEPT !.url = u, !.other = v, !.pattern = p]

Evaluate ==
    /\ ~matcher.done
    /\ matcher' = [matcher EXCEPT
                      !.result = PatternMatches(matcher.url, matcher.pattern),
                      !.otherResult = PatternMatches(matcher.other, matcher.pattern),
                      !.done = TRUE]
    /\ UNCHANGED <<sites, globalScripts, session, maps, browser, handlers,
                   injected, judged, events, scenario, popup, launcher>>

SpecMatch == InitMatch /\ [][Evaluate]_vars


(***************************************************************************)
(* showConfirmPopup(tabId, scriptName), src/background.js 13-198, and the  *)
(* caller that awaits it (lines 569-582).  One prompt on one tab.  The     *)
(* record popup holds the promise, the page (overlay, hidden result input),*)
(* the pending executeScript calls and the two chains of checkResponse:    *)
(* poll is the chain started by the 100 ms timer of line 187, final the    *)
(* one started by the 30 s timer of line 190.  A chain is at "timer" (a    *)
(* setTimeout is pending), at "tabs_get" (line 140 awaited) or at "probe"  *)
(* (line 147 awaited); "first_get" and "first_probe" are these two places  *)
(* in the invocation made by the 30 s callback, whose return runs the then *)
(* callback of line 192.  timedOut and late are history: the 30 s timer    *)
(* has fired; the user responded after it had; closedPending: the tab was  *)
(* closed while the promise was pending.                                   *)
(***************************************************************************)
\* everything but the prompt
rest ==
    <<sites, globalScripts, session, maps, browser, handlers, injected, judged, events,
      scenario, matcher, launcher>>

\* resolve(v): only the first call settles the promise
Resolve(v) == IF popup.promise = "pending" THEN v ELSE popup.promise

\* lines 13-196 up to the return of the promise: the overlay injection is
\* requested and both timers are set
ShowConfirmPopup ==
    /\ popup.promise = "none"
    /\ popup' = [popup EXCEPT !.promise = "pending", !.inject = "pending",
                              !.poll = "timer", !.final = "armed"]
    /\ UNCHANGED rest

\* lines 19-129: the injected function builds the overlay and the empty
\* hidden input
OverlayInjected ==
    /\ popup.inject = "pending"
    /\ popup.tabExists
    /\ popup' = [popup EXCEPT !.inject = "done", !.overlay = TRUE, !.input = "empty"]
    /\ UNCHANGED rest

\* lines 130-133: the injection is rejected
OverlayInjectFails ==
    /\ popup.inject = "pending"
    /\ ~popup.tabExists
    /\ popup' = [popup EXCEPT !.inject = "failed", !.promise = Resolve("false")]
    /\ UNCHANGED rest

\* lines 92-100: handleConfirm / handleCancel (button or key)
UserResponds(v) ==
    /\ popup.overlay
    /\ popup' = [popup EXCEPT !.input = v, !.overlay = FALSE, !.late = popup.timedOut]
    /\ UNCHANGED rest

\* the tab is closed: its page goes with it
TabClosed ==
    /\ popup.promise # "none"
    /\ popup.tabExists
    /\ popup' = [popup EXCEPT !.tabExists = FALSE, !.overlay = FALSE,
                              !.input = "absent",
                              !.closedPending = (popup.promise = "pending")]
    /\ UNCHANGED rest

\* a 100 ms timer (line 187 or 171) fires: checkResponse starts, line 140
PollTimerFires(chain) ==
    /\ popup[chain] = "timer"
    /\ popup' = [popup EXCEPT ![chain] = "tabs_get"]
    /\ UNCHANGED rest

\* lines 190-191: the 30 s timer fires and calls checkResponse
TimeoutFires ==
    /\ popup.final = "armed"
    /\ popup' = [popup EXCEPT !.final = "first_get", !.timedOut = TRUE]
    /\ UNCHANGED rest

TabsGetNeverFails(chain) ==
    /\ popup[chain] \in {"tabs_get", "first_get"}
    /\ popup' = [popup EXCEPT ![chain] =
                    IF popup[chain] = "first_get" THEN "first_probe" ELSE "probe"]
    /\ UNCHANGED rest

\* line 140 settles: lines 141-145 when the tab is gone, else line 147.  The
\* invocation of the 30 s callback then runs line 192-194, a resolve(false)
\* after the resolve(false) of line 143.
TabsGetReturns(chain) ==
    /\ popup[chain] \in {"tabs_get", "first_get"}
    /\ popup' = IF popup.tabExists
                THEN [popup EXCEPT ![chain] =
                          IF popup[chain] = "first_get" THEN "first_probe" ELSE "probe"]
                ELSE [popup EXCEPT ![chain] = "off", !.promise = Resolve("false")]
    /\ UNCHANGED rest

\* line 147 settles: lines 157-169 when the input holds a value, line 171 when
\* it does not, lines 173-183 when the call is rejected.  In the invocation
\* of the 30 s callback the return is followed by lines 192-194.
ProbeReturns(chain) ==
    /\ popup[chain] \in {"probe", "first_probe"}
    /\ popup' =
         IF ~popup.tabExists
         THEN [popup EXCEPT ![chain] = "off", !.promise = Resolve("false")]
         ELSE IF popup.input \in {"confirmed", "cancelled"}
         THEN [popup EXCEPT ![chain] = "off", !.cleanup = TRUE,
                            !.promise = Resolve(IF popup.input = "confirmed"
                                                THEN "true" ELSE "false")]
         ELSE IF popup[chain] = "first_probe"
         THEN [popup EXCEPT ![chain] = "timer", !.promise = Resolve("false")]
         ELSE [popup EXCEPT ![chain] = "timer"]
    /\ UNCHANGED rest

\* lines 160-168: the hidden input is removed; a rejection is swallowed
CleanupRuns ==
    /\ popup.cleanup
    /\ popup' = [popup EXCEPT !.cleanup = FALSE,
                              !.input = IF popup.tabExists THEN "absent" ELSE @]
    /\ UNCHANGED rest

\* lines 573-581 (and 416-423, 503-510): the awaiting rule evaluation resumes;
\* the code of the rule is requested only when the promise resolved true
CallerResumes ==
    /\ popup.promise \in {"true", "false"}
    /\ ~popup.resumed
    /\ popup' = [popup EXCEPT !.resumed = TRUE,
                              !.requests = IF popup.promise = "true" THEN 1 ELSE 0]
    /\ UNCHANGED rest

Chains == {"poll", "final"}

InitConfirm ==
    /\ sites = <<>>
    /\ globalScripts = <<>>
    /\ InitTabs
    /\ matcher = NoMatcher
    /\ popup = NoPopup

NextConfirm ==
    \/ ShowConfirmPopup
    \/ OverlayInjected
    \/ OverlayInjectFails
    \/ \E v \in {"confirmed", "cancelled"} : UserResponds(v)
    \/ TabClosed
    \/ \E c \in Chains : PollTimerFires(c)
    \/ TimeoutFires
    \/ \E c \in Chains : TabsGetReturns(c)
    \/ \E c \in Chains : ProbeReturns(c)
    \/ CleanupRuns
    \/ CallerResumes

SpecConfirm == InitConfirm /\ [][NextConfirm]_vars

(***************************************************************************)
(* The launcher page, src/newtab.js: the add, edit, duplicate and delete   *)
(* handlers of the stored sites.  A stored site is a record with id (the   *)
(* value of Date.now() at its creation, standing for its decimal string),  *)
(* name, url, parentId (0: the property is absent) and scripts.  A name is *)
(* <<base, n>>: the text base, followed by " (copy n)" when n > 0.  The    *)
(* forms and the confirm dialog are modal, so one handler of the page runs *)
(* at a time; the delete handler is suspended while its dialog is open.    *)
(***************************************************************************)
MaxSites == 4
MaxOps == 6

SiteNames == {"a", "b", "c"}
SiteUrls == {UrlA}

Range(seq) == {seq[k] : k \in 1..Len(seq)}

StoredSite(id, name, url, parentId, scripts) ==
    [id |-> id, name |-> name, url |-> url, parentId |-> parentId, scripts |-> scripts]

\* lines 720-722: the options of the parent dropdown besides "None"
ParentOptions(excludeId) ==
    {p.id : p \in {q \in Range(sites) : q.parentId = 0 /\ q.id # excludeId}}

\* lines 799-800 and 958-959: another site has this name
NameTaken(name, exceptId) ==
    \E q \in Range(sites) : q.id # exceptId /\ q.name = name

IndexOfSite(list, siteId) ==
    IF \E k \in 1..Len(list) : list[k].id = siteId
    THEN CHOOSE k \in 1..Len(list) :
            list[k].id = siteId /\ \A m \in 1..(k - 1) : list[m].id # siteId
    ELSE 0

\* a handler of the page starts
Started == [launcher EXCEPT !.ops = launcher.ops + 1]

\* addSiteForm submit, lines 778-852
AddSite(name, url, parentId) ==
    /\ launcher.dialog = "none"
    /\ launcher.ops < MaxOps
    /\ Len(sites) < MaxSites
    /\ ~NameTaken(<<name, 0>>, 0)
    /\ parentId \in ParentOptions(0) \cup {0}
    /\ sites' = Append(sites, StoredSite(launcher.clock + 1, <<name, 0>>, url, parentId, <<>>))
    /\ launcher' = [Started EXCEPT !.clock = launcher.clock + 1]
    /\ UNCHANGED <<globalScripts, session, maps, browser, handlers, injected, judged,
                   events, scenario, matcher, popup>>

\* editSiteForm submit, lines 936-1018; the dropdown was filled when the form
\* opened (line 903)
EditSite(siteId, name, url, parentId) ==
    /\ launcher.dialog = "none"
    /\ launcher.ops < MaxOps
    /\ IndexOfSite(sites, siteId) # 0
    /\ ~NameTaken(<<name, 0>>, siteId)
    /\ parentId \in ParentOptions(siteId) \cup {0}
    /\ sites' = [sites EXCEPT ![IndexOfSite(sites, siteId)] =
                    [@ EXCEPT !.name = <<name, 0>>, !.url = url, !.parentId = parentId]]
    /\ launcher' = Started
    /\ UNCHANGED <<globalScripts, session, maps, browser, handlers, injected, judged,
                   events, scenario, matcher, popup>>

\* lines 1081-1101: the copy number of the new name
NextCopyNumber(base) ==
    LET copies == {q.name[2] : q \in {r \in Range(sites) : r.name[1] = base}}
    IN  1 + (CHOOSE n \in copies \cup {0} : \A m \in copies \cup {0} : m <= n)

\* duplicateSiteBtn click, lines 1067-1129
DuplicateSite(siteId) ==
    /\ launcher.dialog = "none"
    /\ launcher.ops < MaxOps
    /\ Len(sites) < MaxSites
    /\ IndexOfSite(sites, siteId) # 0
    /\ LET site == sites[IndexOfSite(sites, siteId)] IN
       sites' = Append(sites, StoredSite(launcher.clock + 1,
                                         <<site.name[1], NextCopyNumber(site.name[1])>>,
                                         site.url, site.parentId, site.scripts))
    /\ launcher' = [Started EXCEPT !.clock = launcher.clock + 1]
    /\ UNCHANGED <<globalScripts, session, maps, browser, handlers, injected, judged,
                   events, scenario, matcher, popup>>

\* lines 1043-1051 (and 363-372): the list is read and the dialog opens
DeleteClicked(siteId) ==
    /\ launcher.dialog = "none"
    /\ launcher.ops < MaxOps
    /\ IndexOfSite(sites, siteId) # 0
    /\ launcher' = [Started EXCEPT !.dialog = "confirm", !.target = siteId,
                                   !.read = sites, !.removed = 0]
    /\ UNCHANGED <<sites, globalScripts, session, maps, browser, handlers, injected,
                   judged, events, scenario, matcher, popup>>

SurvivesUnlessSelf(s, siteId) == s.id # siteId

\* line 1057 (and 375): the filter of the delete handlers
Survives(s, siteId) == s.id # siteId /\ s.parentId # siteId

\* lines 1052-1059 (and 373-376): the answer to the dialog
DeleteAnswered(ok) ==
    /\ launcher.dialog = "confirm"
    /\ LET keep(s) == Survives(s, launcher.target) IN
       sites' = IF ok THEN SelectSeq(launcher.read, keep) ELSE sites
    /\ launcher' = [launcher EXCEPT !.dialog = "none",
                                    !.removed = IF ok THEN launcher.target ELSE 0]
    /\ UNCHANGED <<globalScripts, session, maps, browser, handlers, injected, judged,
                   events, scenario, matcher, popup>>

\* the stored list is empty and no form is open
InitSites ==
    /\ sites = <<>>
    /\ globalScripts = <<>>
    /\ InitTabs
    /\ matcher = NoMatcher
    /\ popup = NoPopup

NextSites ==
    \/ \E n \in SiteNames, u \in SiteUrls, p \in 0..MaxOps : AddSite(n, u, p)
    \/ \E i \in 1..MaxOps, n \in SiteNames, u \in SiteUrls, p \in 0..MaxOps :
          EditSite(i, n, u, p)
    \/ \E i \in 1..MaxOps : DuplicateSite(i)
    \/ \E i \in 1..MaxOps : DeleteClicked(i)
    \/ \E ok \in BOOLEAN : DeleteAnswered(ok)

SpecSites == InitSites /\ [][NextSites]_vars

(***************************************************************************)
(* Properties.                                                             *)
(***************************************************************************)
RuleById(id) == CHOOSE k \in 1..Len(globalScripts) : globalScripts[k].id = id

SiteById(id) == CHOOSE k \in 1..Len(sites) : sites[k].id = id

Requests == {injected[k] : k \in 1..Len(injected)}

\* C1: no injection request for the code of a GlobalScript with
\* onRefresh = false is ever issued by the handler of an event of a same-URL
\* reload, whatever its whenToRun and whatever happened on the tab before.
C1_NoRunOnReload ==
    \A r \in Requests :
        (r.kind = "global" /\ r.reload) => globalScripts[RuleById(r.owner)].onRefresh

\* C2: a request for a site script with runAlways = false is issued only by
\* an evaluation that read the marker launcher_opened_<id> of the owning
\* site as true.
C2_RunAlwaysFalseNeedsMarker ==
    \A r \in Requests :
        (r.kind = "site" /\ ~sites[SiteById(r.owner)].scripts[r.idx].runAlways)
            => r.opened

C2_Witness ==
    \E r \in Requests :
        /\ r.kind = "site"
        /\ ~sites[SiteById(r.owner)].scripts[r.idx].runAlways
        /\ r.opened

\* C3: once a site has been opened from the launcher grid, its load has
\* completed and every handler has finished, the marker of that site is
\* absent from session storage, whatever scripts the site has.
C3_MarkerConsumed ==
    (scenario.phase = 2 /\ handlers = {}) => sites[scenario.site].id \notin session

\* the site-script requests for site k on tab t issued after position base
SiteRequestsSince(base, t, k) ==
    Cardinality({n \in (base + 1)..Len(injected) :
                    /\ injected[n].kind = "site"
                    /\ injected[n].tab = t
                    /\ injected[n].owner = sites[k].id})

\* the site of the scenario: its only script has runAlways = false and asks
\* for no confirmation
OneLauncherScript(k) ==
    /\ Len(sites[k].scripts) = 1
    /\ ~sites[k].scripts[1].runAlways
    /\ ~sites[k].scripts[1].confirmPopup

\* C4: for a site whose only script has runAlways = false, opened from the
\* launcher grid: when the load has completed and every handler has finished
\* the script has been requested exactly once on that tab and the marker is
\* gone; after a following reload of the tab has completed and finished the
\* count is still one; at no point in between is it more than one.
C4_EndToEnd ==
    (scenario.phase > 0 /\ OneLauncherScript(scenario.site)) =>
        LET n == SiteRequestsSince(scenario.base, scenario.tab, scenario.site) IN
        /\ n <= 1
        /\ (scenario.phase \in {2, 4} /\ handlers = {}) =>
               (n = 1 /\ sites[scenario.site].id \notin session)

\* the classification as the specification words it
StatedType(previousUrl, currentUrl) ==
    IF previousUrl = currentUrl THEN "refresh"
    ELSE IF previousUrl # Undefined /\ previousUrl.hostname # currentUrl.hostname
         THEN "navigation"
    ELSE "direct"

\* C6: a URL change on a tab is classified against the tab's tracked previous
\* URL: the identical URL gives refresh, differing hostnames give navigation,
\* the same hostname with another URL, or no previous URL, gives direct.
C6_Classification ==
    [][\A t \in Tabs, u \in Urls :
          UrlChanged(t, u) =>
              tabNavigationTypes'[t] = StatedType(tabPreviousUrls[t], u)]_vars

\* C6 as amended: differing hostnames give navigation only when the previous
\* URL has a hostname; a previous URL without one (about:blank) gives direct.
C6_ClassificationAmended ==
    [][\A t \in Tabs, u \in Urls :
          UrlChanged(t, u) =>
              tabNavigationTypes'[t] =
                  IF tabPreviousUrls[t] = u THEN "refresh"
                  ELSE IF /\ tabPreviousUrls[t] # Undefined
                          /\ tabPreviousUrls[t].hostname # <<>>
                          /\ tabPreviousUrls[t].hostname # u.hostname
                       THEN "navigation"
                  ELSE "direct"]_vars

\* a URL change from about:blank to https://a.com/ has been classified direct
C6_Witness ==
    \E t \in Tabs :
        /\ tabNavigationPreviousUrls[t] = UrlBlank
        /\ tabUrl[t] = UrlA
        /\ tabNavigationTypes[t] = "direct"

\* C7: once a tab has been removed and no handler started for it is still in
\* flight, none of the three maps holds an entry for it.
C7_RemovedTabForgotten ==
    \A t \in Tabs :
        (tabLife[t] = "removed" /\ \A h \in handlers : h.tab # t) =>
            /\ tabPreviousUrls[t] = Undefined
            /\ tabNavigationTypes[t] = "undefined"
            /\ tabNavigationPreviousUrls[t] = Undefined

RECURSIVE Glob(_, _)
Glob(p, s) ==
    IF p = <<>> THEN s = <<>>
    ELSE IF Head(p) = "*"
         THEN \E k \in 0..Len(s) : Glob(Tail(p), Drop(s, k))
    ELSE s # <<>> /\ Head(s) = Head(p) /\ Glob(Tail(p), Tail(s))

\* C10: the match is that of a glob: every "*" of the pattern matches any
\* sequence of characters, every other pattern character only itself.
C10_StarIsTheOnlyWildcard ==
    matcher.done =>
        matcher.result =
            Glob(matcher.pattern,
                 IF Includes(matcher.pattern, "/")
                 THEN matcher.url.hostname \o matcher.url.pathname
                 ELSE matcher.url.hostname)

\* C5: when the 30 s timer of a prompt has fired without a response of the
\* user, the promise never resolves true and the gated code is never
\* requested, also when the user confirms afterwards.
C5_TimeoutResolvesFalse ==
    popup.late => (popup.promise # "true" /\ popup.requests = 0)

\* the string a pattern is matched against: the hostname, or hostname and
\* path when the pattern has a "/"
TargetString(url, pattern) ==
    IF Includes(pattern, "/") THEN url.hostname \o url.pathname ELSE url.hostname

\* C11: the match is anchored at both ends: a pattern without "*" matches
\* exactly when the target string equals the pattern.
C11_ExactWithoutStar ==
    (matcher.done /\ ~Includes(matcher.pattern, "*")) =>
        (matcher.result <=> TargetString(matcher.url, matcher.pattern) = matcher.pattern)

\* the requests made so far for block k of GlobalScript i by the evaluation
\* of event e
Requested(e, i, k) ==
    \E r \in Requests :
        r.ev = e /\ r.kind = "global" /\ r.owner = globalScripts[i].id /\ r.idx = k

\* the decision d to run a GlobalScript has been followed: every code block
\* of the rule has been requested, unless the rule asks for confirmation and
\* its prompt is still open or was answered with cancel
Followed(d) ==
    LET g == globalScripts[d.idx]
        asking == \E h \in handlers :
                      h.ev = d.ev /\ h.i = d.idx /\ h.pc \in {"out_confirm", "global_confirm"}
        cancelled == \E a \in judged :
                      a.ev = d.ev /\ a.at = d.at /\ a.idx = d.idx /\ a.verdict = "cancelled"
    IN  (g.confirmPopup /\ (asking \/ cancelled))
        \/ \A k \in 1..g.scripts : Requested(d.ev, d.idx, k)

TriggerChecks == {d \in judged : d.verdict \in {"nomatch", "skip", "run"}}

\* C12: at load-complete a GlobalScript with onRefresh = true whose pattern
\* matches the loaded URL is run when the navigation type read for it is
\* refresh, whatever its whenToRun, subject only to its confirmation prompt.
C12_OnRefreshRuns ==
    \A d \in TriggerChecks :
        (/\ d.at = "global"
         /\ d.nav = "refresh"
         /\ globalScripts[d.idx].onRefresh
         /\ PatternMatches(d.url, globalScripts[d.idx].domainPattern))
            => (d.verdict = "run" /\ Followed(d))

\* on one refresh an on_site_open rule has run with no launcher marker in the
\* session, and a navigating_out rule has run as well
C12_Witness ==
    /\ session = {}
    /\ \A w \in {"on_site_open", "navigating_out"} :
          \E d \in TriggerChecks :
              /\ d.at = "global"
              /\ d.nav = "refresh"
              /\ ~d.marker
              /\ globalScripts[d.idx].whenToRun = w
              /\ globalScripts[d.idx].onRefresh
              /\ d.verdict = "run"
              /\ Requested(d.ev, d.idx, 1)

\* C13: a request for the code of an on_site_open GlobalScript comes from a
\* decision to run it, and such a decision taken for a navigation type other
\* than refresh was taken with a launcher marker present in session storage
\* at the moment of the check; without one the rule is skipped.
C13_OnSiteOpenNeedsMarker ==
    /\ \A d \in TriggerChecks :
          (/\ d.at = "global"
           /\ globalScripts[d.idx].whenToRun = "on_site_open"
           /\ d.nav # "refresh"
           /\ d.verdict = "run") => d.marker
    /\ \A r \in Requests :
          (r.kind = "global" /\ globalScripts[RuleById(r.owner)].whenToRun = "on_site_open")
              => \E d \in TriggerChecks :
                     /\ d.ev = r.ev
                     /\ d.at = "global"
                     /\ d.idx = RuleById(r.owner)
                     /\ d.verdict = "run"

\* an on_site_open rule has run on a non-refresh load with a marker present
C13_Witness ==
    \E d \in TriggerChecks :
        /\ d.at = "global"
        /\ globalScripts[d.idx].whenToRun = "on_site_open"
        /\ d.nav # "refresh"
        /\ d.verdict = "run"
        /\ d.marker
        /\ Requested(d.ev, d.idx, 1)

\* C14: every navigating_out GlobalScript whose pattern matches the departing
\* URL of a URL change to another hostname is run, whatever its onRefresh,
\* subject only to its confirmation prompt.
C14_NavigatingOutRuns ==
    \A d \in TriggerChecks :
        (d.at = "out" /\ PatternMatches(d.url, globalScripts[d.idx].domainPattern))
            => (d.verdict = "run" /\ Followed(d))

Finished(e) == \A h \in handlers : h.ev # e

Checked(e, at, idx) == \E d \in TriggerChecks : d.ev = e /\ d.at = at /\ d.idx = idx

\* the loop a request belongs to
LoopOf(r) ==
    IF r.kind = "site" THEN "site"
    ELSE IF \E d \in judged : d.ev = r.ev /\ d.at = "out" THEN "out"
    ELSE "global"

\* the evaluation of event e went on after position idx of loop at: every
\* later script or rule has had its trigger check, and every decision to run
\* one has been followed
WentOn(e, at, idx) ==
    /\ at = "site" =>
          LET k == CHOOSE k \in 1..Len(sites) :
                      \E d \in judged : d.ev = e /\ k = MatchingSite(d.url)
          IN  /\ \A j \in (idx + 1)..Len(sites[k].scripts) : Checked(e, "site", j)
              /\ \A i \in 1..Len(globalScripts) : Checked(e, "global", i)
    /\ at = "global" => \A i \in (idx + 1)..Len(globalScripts) : Checked(e, "global", i)
    /\ at = "out" =>
          \A i \in (idx + 1)..Len(globalScripts) :
              globalScripts[i].whenToRun = "navigating_out" => Checked(e, "out", i)
    /\ \A d \in TriggerChecks :
          (d.ev = e /\ d.verdict = "run") =>
              IF d.at = "site"
              THEN \/ \E r \in Requests : r.ev = e /\ r.kind = "site" /\ r.idx = d.idx
                   \/ \E a \in judged : a.ev = e /\ a.at = "site" /\ a.idx = d.idx
                                         /\ a.verdict = "cancelled"
              ELSE Followed(d)

Cancellations == {a \in judged : a.verdict = "cancelled"}

C16_FailureDoesNotAbort ==
    \A r \in Requests :
        r.failed =>
            /\ r.kind = "global" =>
                  \A k \in 1..globalScripts[RuleById(r.owner)].scripts :
                      Requested(r.ev, RuleById(r.owner), k)
            /\ Finished(r.ev) =>
                  WentOn(r.ev, LoopOf(r),
                         IF r.kind = "site" THEN r.idx ELSE RuleById(r.owner))

\* the request for a site script was rejected and both code blocks of a
\* later GlobalScript of the same evaluation have been requested
C16_Witness ==
    \E r \in Requests :
        /\ r.failed
        /\ r.kind = "site"
        /\ Finished(r.ev)
        /\ \E i \in 1..Len(globalScripts) :
              /\ globalScripts[i].scripts = 2
              /\ \A k \in 1..2 : Requested(r.ev, i, k)

\* C17: when the read of the stored lists fails in a load-complete
\* evaluation, the evaluation ends there: it makes no injection request,
\* opens no prompt and leaves the session markers as they are.
C17_FailedReadAbandons ==
    [][\A h \in handlers :
          StorageReadFails(h) =>
              /\ injected' = injected
              /\ session' = session
              /\ \A g \in handlers' : g.ev # h.ev
              /\ \A d \in judged' : d.ev = h.ev => d.verdict = "failed"]_vars

\* the read failed for a load opened from the launcher: nothing was
\* requested for that event and the marker is still set
C17_Witness ==
    \E f \in judged :
        /\ f.verdict = "failed"
        /\ Finished(f.ev)
        /\ session # {}
        /\ \A r \in Requests : r.ev # f.ev

\* C18: when the tab is closed while the prompt is pending, a poll is still
\* to come, the poll that finds the tab gone resolves the promise false, and
\* the promise never resolves true, so the gated code is not requested.
C18_ClosedTabCancels ==
    [][/\ (popup.promise = "pending" /\ ~popup.tabExists
           /\ \E c \in Chains : TabsGetReturns(c) \/ ProbeReturns(c))
              => popup'.promise = "false"
       /\ (popup'.promise = "pending" /\ ~popup'.tabExists)
              => popup'.poll \in {"timer", "tabs_get", "probe"}
       /\ popup'.closedPending => (popup'.promise # "true" /\ popup'.requests = 0)]_vars

\* the tab was closed while the prompt was pending, the promise resolved
\* false before the 30 s timer fired and the caller has skipped the rule
C18_Witness ==
    /\ popup.closedPending
    /\ popup.promise = "false"
    /\ ~popup.timedOut
    /\ popup.resumed
    /\ popup.requests = 0

\* C19: once the prompt has resolved and its page is still there, the overlay
\* and the hidden result input are gone from the page (after the clean-up
\* call that line 160 starts has run).
C19_ResolvedPromptIsRemoved ==
    (/\ popup.promise \in {"true", "false"}
     /\ popup.tabExists
     /\ popup.inject = "done"
     /\ ~popup.cleanup)
        => (~popup.overlay /\ popup.input = "absent")

\* a step of the listeners that belongs to tab a: one of its events, or the
\* resumption of a handler started by one of its tab-updated events
StepOfTab(a) ==
    \/ \E u \in Urls : UrlChange(a, u)
    \/ \E k \in 1..Len(sites) : LauncherClick(a, k)
    \/ Reload(a)
    \/ LoadComplete(a)
    \/ TabRemoved(a)
    \/ \E h \in handlers :
          /\ h.tab = a
          /\ \/ NavigatingOutRead(h)
             \/ NavigatingOutReadFails(h)
             \/ \E b \in BOOLEAN : NavigatingOutConfirmed(h, b)
             \/ StorageRead(h)
             \/ StorageReadFails(h)
             \/ SessionRead(h)
             \/ \E b \in BOOLEAN : SiteConfirmed(h, b)
             \/ SessionRemove(h)
             \/ SessionReadAll(h)
             \/ \E b \in BOOLEAN : GlobalConfirmed(h, b)

\* the three tracked values of tab b
Tracked(b) == <<tabPreviousUrls[b], tabNavigationTypes[b], tabNavigationPreviousUrls[b]>>

\* C20: a step that belongs to tab a leaves the tracked previous URL, in-flight
\* previous URL and navigation type of every other tab as they were, and the
\* navigation type it records for a on a URL change is computed from a's own
\* previous URL.
C20_TabsDoNotInterfere ==
    [][\A a \in Tabs :
          StepOfTab(a) =>
              /\ \A b \in Tabs \ {a} : Tracked(b)' = Tracked(b)
              /\ \A u \in Urls :
                    (UrlChange(a, u) \/ \E k \in 1..Len(sites) : LauncherClick(a, k) /\ sites[k].url = u)
                        => tabNavigationTypes'[a] = Classify(tabPreviousUrls[a], u)]_vars

\* tab 1 was removed while tab 2 had a load-complete handler in flight, and
\* tab 2 still has its previous URL and its navigation type
C20_Witness ==
    /\ tabLife[1] = "removed"
    /\ tabPreviousUrls[2] # Undefined
    /\ tabNavigationTypes[2] # "undefined"
    /\ \E h \in handlers : h.tab = 2 /\ h.pc = "get"

\* the position of a stored site in a list
PositionIn(list, s) == CHOOSE k \in 1..Len(list) : list[k] = s

\* C21: a confirmed delete of site S removes S and the sites whose parentId
\* is S's id and nothing else; the sites that stay are unchanged and keep
\* their relative order.
C21_DeleteCascades ==
    [][DeleteAnswered(TRUE) =>
          LET gone == {s \in Range(sites) :
                          s.id = launcher.target \/ s.parentId = launcher.target}
          IN  /\ Range(sites') = Range(sites) \ gone
              /\ Len(sites') = Cardinality(Range(sites'))
              /\ \A i, j \in 1..Len(sites') :
                    i < j => PositionIn(sites, sites'[i]) < PositionIn(sites, sites'[j])]_vars

\* a delete was confirmed that took a child with it and left other sites, one
\* stored before the deleted site and one after it
C21_Witness ==
    /\ launcher.dialog = "none"
    /\ launcher.removed # 0
    /\ \E c \in Range(launcher.read) :
          c.parentId = launcher.removed /\ c \notin Range(sites)
    /\ \E a, b \in Range(sites) :
          /\ IndexOfSite(launcher.read, a.id) \in 1..(IndexOfSite(launcher.read, launcher.removed) - 1)
          /\ IndexOfSite(launcher.read, b.id) > IndexOfSite(launcher.read, launcher.removed)

\* C30: every stored site with a parentId refers to a stored site that has
\* no parentId itself.
C30_ParentsAreTopLevel ==
    \A s \in Range(sites) :
        s.parentId # 0 =>
            \E p \in Range(sites) : p.id = s.parentId /\ p.parentId = 0

\* the requests of load-complete evaluations are in the stated order: for two
\* requests of one evaluation, the earlier one is for a site script and the
\* later for a GlobalScript, or both are site scripts in stored order, or both
\* belong to GlobalScripts in stored order, code blocks in stored order
InStatedOrder(inj) ==
    \A m, n \in 1..Len(inj) :
        (m < n /\ inj[m].ev = inj[n].ev /\ LoopOf(inj[m]) # "out") =>
            LET a == inj[m]
                b == inj[n]
            IN  \/ a.kind = "site" /\ b.kind = "global"
                \/ a.kind = "site" /\ b.kind = "site" /\ a.idx < b.idx
                \/ /\ a.kind = "global" /\ b.kind = "global"
                   /\ \/ RuleById(a.owner) < RuleById(b.owner)
                      \/ a.owner = b.owner /\ a.idx < b.idx

\* a load-complete evaluation of tab t has not finished its rules
Evaluating(t) == \E h \in handlers : h.tab = t /\ h.pc \notin {"out_get", "out_confirm"}

\* C22: the requests of a load-complete evaluation come in the stated order,
\* and a step that clears the previous-navigation-URL slot of an open tab
\* leaves no load-complete evaluation of that tab with rules still to
\* evaluate.
C22_StatedOrder ==
    [][/\ InStatedOrder(injected')
       /\ \A t \in Tabs :
             (/\ tabNavigationPreviousUrls[t] # Undefined
              /\ tabNavigationPreviousUrls'[t] = Undefined
              /\ tabLife'[t] = "open")
                 => ~Evaluating(t)']_vars

\* the trigger checks of the global loop that got as far as reading the
\* navigation type (line 534)
TypedChecks == {d \in TriggerChecks : d.at = "global" /\ d.verdict \in {"run", "skip"}}

\* C23: what a load-complete evaluation finds in tabNavigationTypes when it
\* begins is the type set by the URL change of its own load; for a load that
\* had no URL change (a reload reported by status alone) it finds no type
\* left from an earlier navigation.
C23_TypeOfOwnLoad ==
    \A d \in TypedChecks :
        d.start = IF d.load = "none" THEN "undefined" ELSE d.load

\* C25: every GlobalScript of one load-complete evaluation is judged against
\* the navigation type that was current when the evaluation began.
C25_SameTypeThroughout ==
    \A d \in TypedChecks :
        d.nav = IF d.start = "undefined" THEN "direct" ELSE d.start

\* the handlers of tab t that are suspended in a navigating_out evaluation
Departing(t) == {h \in handlers : h.tab = t /\ h.pc \in {"out_get", "out_confirm"}}

\* C24: a URL change of a tab that has had one before is classified against
\* the URL of the tab's preceding URL-change event, and so are its
\* navigating_out rules matched, also while the handler of the preceding
\* event is suspended; when no handler of an open tab is left, the tracked
\* previous URL is the tab's last observed URL.
C24_PrecedingUrl ==
    [][/\ \A t \in Tabs, u \in Urls :
             (UrlChanged(t, u) /\ (tabPreviousUrls[t] # Undefined \/ Departing(t) # {}))
                 => /\ tabNavigationTypes'[t] = Classify(tabUrl[t], u)
                    /\ \A h \in Departing(t)' \ Departing(t) : h.prev = tabUrl[t]
                    /\ NavigatingAway(tabUrl[t], u) => Departing(t)' # Departing(t)
       /\ \A t \in Tabs :
             (/\ tabLife'[t] = "open"
              /\ tabPreviousUrls'[t] # Undefined
              /\ \A h \in handlers' : h.tab # t)
                 => tabPreviousUrls'[t] = tabUrl'[t]]_vars

\* the load-complete evaluations in which the marker read as true let a
\* runAlways = false script of site k run
EnabledByMarker(k) ==
    {d.ev : d \in {e \in TriggerChecks :
                      /\ e.at = "site"
                      /\ MatchingSite(e.url) = k
                      /\ e.verdict = "run"
                      /\ e.marker
                      /\ ~sites[k].scripts[e.idx].runAlways}}

\* the clicks on site k of the launcher grid, each of which sets its marker
ClicksOn(k) == {c \in judged : c.verdict = "clicked" /\ c.idx = k}

\* C26: the number of load-complete evaluations in which the marker of a site
\* enabled runAlways = false scripts never exceeds the number of times the
\* marker was set.
C26_MarkerEnablesOnce ==
    \A k \in 1..Len(sites) :
        Cardinality(EnabledByMarker(k)) <= Cardinality(ClicksOn(k))

\* C27: a site was opened from the launcher grid, its load has completed as a
\* non-refresh load and every handler has finished: every on_site_open
\* GlobalScript whose pattern matches the site's URL was run by the
\* evaluation of that load.
C27_OnSiteOpenAfterLaunch ==
    (/\ scenario.phase = 2
     /\ handlers = {}
     /\ tabNavigationTypes[scenario.tab] # "refresh")
        => \A i \in 1..Len(globalScripts) :
              (/\ globalScripts[i].whenToRun = "on_site_open"
               /\ PatternMatches(sites[scenario.site].url, globalScripts[i].domainPattern))
                  => \E d \in TriggerChecks :
                        /\ d.ev = events /\ d.tab = scenario.tab
                        /\ d.at = "global" /\ d.idx = i
                        /\ d.verdict = "run" /\ Followed(d)

\* site k shares its origin with another stored site
SharesOrigin(k) ==
    \E m \in 1..Len(sites) : m # k /\ Origin(sites[m].url) = Origin(sites[k].url)

\* C28: a site with scripts that shares its origin with another stored site
\* was opened from the launcher grid, its load has completed and every handler
\* has finished: each of its runAlways = false scripts was requested by the
\* evaluation of that load (or its prompt was cancelled), its marker is gone,
\* and no script of another site was requested on that tab.
C28_OwnScriptsAndMarker ==
    (/\ scenario.phase = 2
     /\ handlers = {}
     /\ SharesOrigin(scenario.site)
     /\ Len(sites[scenario.site].scripts) > 0)
        => LET k == scenario.site
               since == {injected[n] : n \in (scenario.base + 1)..Len(injected)}
           IN  /\ \A j \in 1..Len(sites[k].scripts) :
                     ~sites[k].scripts[j].runAlways =>
                         \/ \E r \in since :
                               /\ r.kind = "site" /\ r.tab = scenario.tab
                               /\ r.owner = sites[k].id /\ r.idx = j /\ r.ev = events
                         \/ /\ sites[k].scripts[j].confirmPopup
                            /\ \E a \in Cancellations :
                                  a.ev = events /\ a.at = "site" /\ a.idx = j
               /\ sites[k].id \notin session
               /\ \A r \in since :
                     (r.kind = "site" /\ r.tab = scenario.tab) => r.owner = sites[k].id

\* C29: once the promise of the prompt has resolved, no step sets a further
\* 100 ms timer for checkResponse.
C29_PollingStops ==
    [][popup.promise \in {"true", "false"} =>
          \A c \in Chains : popup'[c] = "timer" => popup[c] = "timer"]_vars

====
